---- MODULE Spec2Model ----
(***************************************************************************)
(* Model of the three serverless request handlers of the repository:      *)
(*   "index"   : src/api/index.js        (multi-model router)              *)
(*   "part000" : src/unnamed/part_000    (router with FALLBACK lists)      *)
(*   "claude"  : src/api/claude.js       (single-upstream handler)         *)
(*                                                                         *)
(* One request is handled at a time.  A step of the model is what the      *)
(* JavaScript runs between two awaits: from the arrival of the request to  *)
(* the first fetch, from the settlement of a fetch to the await of         *)
(* response.json(), and from the settlement of response.json() to the next *)
(* fetch or to the HTTP response.  Upstream services are the environment:  *)
(* each fetch rejects or resolves with an ok / not-ok status, and each     *)
(* body is invalid JSON or an object whose fields hold JavaScript values.  *)
(***************************************************************************)
EXTENDS Integers, Sequences, FiniteSets, TLC

VARIABLES
    served,   \* number of requests the deployment has received so far
    req,      \* the request as received; once the handler has read its
              \* parameters into loc, only the endpoint invoked is kept
    pc,       \* the await the handler is suspended at, "idle" or "done"
    loc,      \* the handler's local variables
    data,     \* const data: the body parsed in the step just taken
    calls,    \* log of the fetch calls of this request, in call order
    sent,     \* log of the HTTP responses written for this request
    thrown,   \* message of the exception the handler's outer catch caught
    escaped   \* TRUE when an exception left the handler uncaught

vars == <<served, req, pc, loc, data, calls, sent, thrown, escaped>>

\* Number of requests one behaviour of the model receives.
MaxRequests == 2

(***************************************************************************)
(* JavaScript values.  A value is a type tag and the characters of         *)
(* String(value).                                                          *)
(***************************************************************************)
Undef == [t |-> "undefined", s |-> <<>>]
Null == [t |-> "null", s |-> <<>>]
Str(chars) == [t |-> "string", s |-> chars]
Num(chars) == [t |-> "number", s |-> chars]
Arr(chars) == [t |-> "array", s |-> chars]

\* ToBoolean: undefined, null, "" and 0 are falsy; arrays are truthy.
Truthy(v) ==
    CASE v.t = "undefined" -> FALSE
      [] v.t = "null" -> FALSE
      [] v.t = "string" -> v.s # <<>>
      [] v.t = "number" -> v.s # <<"0">>
      [] OTHER -> TRUE

\* a || b
Or(a, b) == IF Truthy(a) THEN a ELSE b

\* Destructuring default `x = d`: the default applies to undefined only.
Default(v, d) == IF v = Undef THEN d ELSE v

\* String.prototype.toLowerCase on the characters the model uses.
LowerChar(c) ==
    CASE c = "G" -> "g"
      [] c = "P" -> "p"
      [] c = "T" -> "t"
      [] OTHER -> c

toLowerCase(v) == Str([i \in 1..Len(v.s) |-> LowerChar(v.s[i])])

\* A lone UTF-16 surrogate, which encodeURIComponent rejects with URIError.
LoneSurrogate == "\\uD83E"

URIError == <<"URIError">>

RECURSIVE encodeURIComponent(_)
\* encodeURIComponent over a character sequence: unreserved characters are
\* kept, a space becomes %20, a lone surrogate raises URIError.
encodeURIComponent(chars) ==
    IF chars = <<>> THEN <<>>
    ELSE LET rest == encodeURIComponent(Tail(chars))
             c == Head(chars)
         IN  IF c = LoneSurrogate \/ rest = URIError THEN URIError
             ELSE IF c = " " THEN <<"%", "2", "0">> \o rest
             ELSE <<c>> \o rest

S_chatgpt == <<"c", "h", "a", "t", "g", "p", "t">>
S_gpt == <<"g", "p", "t">>
S_gpt4 == <<"g", "p", "t", "4">>
S_GPT4 == <<"G", "P", "T", "4">>
S_claude == <<"c", "l", "a", "u", "d", "e">>
S_perplexity == <<"p", "e", "r", "p", "l", "e", "x", "i", "t", "y">>
S_search == <<"s", "e", "a", "r", "c", "h">>
S_gemini == <<"g", "e", "m", "i", "n", "i">>
S_llama == <<"l", "l", "a", "m", "a">>
S_chat == <<"c", "h", "a", "t">>
S_image == <<"i", "m", "a", "g", "e">>
S_test == <<"t", "e", "s", "t">>
S_draw == <<"d", "r", "a", "w">>
S_Hello == <<"H", "e", "l", "l", "o">>
S_NoResponse == <<"N", "o", " ", "r", "e", "s", "p", "o", "n", "s", "e", ".">>
S_fallback == <<"f", "a", "l", "l", "b", "a", "c", "k">>
S_placeholder == <<"YOUR_GEMINI_KEY">>
S_realKey == <<"AIza-key">>

S_URIMalformed == "URI malformed"

(***************************************************************************)
(* Upstream registry.  An upstream is named by a short tag.                *)
(***************************************************************************)
\* index.js WORKING_APIS
WORKING_APIS ==
    [chatgpt |-> <<"kastg_chatgpt", "deepenglish">>,
     claude |-> <<"kastg_claude">>,
     perplexity |-> <<"kastg_perplexity">>,
     gemini |-> <<"google_gemini">>,
     image |-> <<"pollinations", "kastg_sd">>]

\* part_000 APIS[model] || APIS.gpt4
APIS(model) ==
    CASE model = Str(S_gpt4) -> "guru_gpt4"
      [] model = Str(S_claude) -> "guru_claude"
      [] model = Str(S_gemini) -> "guru_gemini"
      [] model = Str(S_llama) -> "guru_llama"
      [] OTHER -> "guru_gpt4"

\* part_000 FALLBACK
FALLBACK ==
    [chat |-> <<"widipe", "freeaiapi_chat">>,
     image |-> <<"freeaiapi_image">>]

\* claude.js: the one upstream
COCOS == "cocos"

(***************************************************************************)
(* Requests.                                                                *)
(***************************************************************************)
Prompts == {Undef, Str(<<>>), Str(<<"a", " ", "f">>), Str(<<LoneSurrogate>>)}
Models == {Undef, Str(S_GPT4), Str(S_claude), Str(S_perplexity),
           Str(S_gemini), Str(S_llama), Num(<<"4", "2">>)}
Actions == {Undef, Str(S_chat), Str(S_image), Str(S_test), Str(S_draw)}
\* history: absent, an array (its turns are not modelled), or a number
Histories == {Undef, Arr(<<>>), Num(<<"5">>)}

\* process.env.GEMINI_API_KEY: unset, empty, the placeholder, a real key
EnvKeys == {Undef, Str(<<>>), Str(S_placeholder), Str(S_realKey)}

\* req.query / req.body: absent (undefined) or an object with these fields
NoParams ==
    [present |-> FALSE, prompt |-> Undef, model |-> Undef,
     action |-> Undef, history |-> Undef]

Params(p, mo, a, h) ==
    [present |-> TRUE, prompt |-> p, model |-> mo, action |-> a, history |-> h]

EmptyParams == Params(Undef, Undef, Undef, Undef)

AllParams ==
    {Params(p, mo, a, h) : p \in Prompts, mo \in Models, a \in Actions,
                           h \in Histories}

\* A query string carries strings only.
QueryParams ==
    {q \in AllParams : q.model.t # "number" /\ q.history = Undef}

Request(e, me, q, b) == [endpoint |-> e, method |-> me, query |-> q, body |-> b]

\* GET carries its parameters in the query string, POST in a JSON body (or no
\* body at all); an OPTIONS pre-flight carries neither.
RouterRequests(e) ==
    {Request(e, "GET", q, NoParams) : q \in QueryParams}
      \cup {Request(e, "POST", EmptyParams, b) : b \in AllParams \cup {NoParams}}
      \cup {Request(e, "OPTIONS", EmptyParams, NoParams)}

\* claude.js reads req.query.prompt only.
ClaudeRequests ==
    {Request("claude", me, Params(p, Undef, Undef, Undef), NoParams) :
        me \in {"GET", "OPTIONS"}, p \in Prompts}

Requests == RouterRequests("index") \cup RouterRequests("part000") \cup ClaudeRequests

NoRequest == Request("none", "-", NoParams, NoParams)

(***************************************************************************)
(* Upstream answers.                                                        *)
(***************************************************************************)
TextA == Str(<<"A">>)
TextB == Str(<<"B">>)

\* What a field of an upstream's JSON body may hold: absent, null, the empty
\* string (the falsy value that is neither null nor undefined), two texts.
FieldVals == {Undef, Null, Str(<<>>), TextA, TextB}

\* The fields of the body each upstream's caller reads.
Fields(target) ==
    CASE target \in {"kastg_chatgpt", "kastg_claude", "kastg_perplexity"} ->
            {"response", "message", "result"}
      [] target = "deepenglish" -> {"response", "message"}
      [] target = "google_gemini" -> {"text"}
      [] target = "kastg_sd" -> {"url", "image"}
      [] target \in {"guru_gpt4", "guru_claude", "guru_gemini", "guru_llama"} ->
            {"response", "answer", "result"}
      [] target \in {"widipe", "freeaiapi_chat", "cocos"} -> {"content"}
      [] target = "freeaiapi_image" -> {"url"}

Bodies(target) == [Fields(target) -> FieldVals]

NoData == [f \in {} |-> Undef]

(***************************************************************************)
(* The call log and the response log.                                       *)
(***************************************************************************)
PendingCall(target) ==
    [target |-> target, settled |-> "pending", ok |-> FALSE,
     body |-> "unread", value |-> Undef]

NoBody ==
    [hasBody |-> TRUE, success |-> "absent", error |-> "", message |-> "",
     usage |-> FALSE, state |-> "", model |-> Undef, response |-> Undef,
     imageUrl |-> Undef, prompt |-> Undef]

\* res.status(status).json(fields)
Json(status, fields) == [status |-> status] @@ fields @@ NoBody

\* res.status(status).end()
End(status) == [status |-> status] @@ [hasBody |-> FALSE] @@ NoBody

NoLocals ==
    [prompt |-> Undef, model |-> Undef, action |-> Undef, history |-> Undef,
     modelLower |-> Undef, key |-> Undef, idx |-> 0, error |-> "",
     parsed |-> FALSE]

\* The handler's state as one record, and the steps on it.
Cur ==
    [pc |-> pc, loc |-> loc, data |-> NoData, calls |-> calls, sent |-> sent,
     thrown |-> thrown, escaped |-> escaped]

Become(m) ==
    /\ pc' = m.pc
    /\ loc' = m.loc
    /\ data' = m.data
    /\ calls' = m.calls
    /\ sent' = m.sent
    /\ thrown' = m.thrown
    /\ escaped' = m.escaped
    /\ req' = [NoRequest EXCEPT !.endpoint = req.endpoint]
    /\ UNCHANGED served

\* return res.status(..)...: the response is written and the handler returns.
Send(m, r) == [m EXCEPT !.pc = "done", !.sent = Append(@, r)]

\* await fetch(target, ...): the call starts and the handler suspends at `at`.
Fetch(m, target, at) ==
    [m EXCEPT !.pc = at, !.calls = Append(@, PendingCall(target))]

\* The pending call settles.
Rejected(m) ==
    [m EXCEPT !.calls[Len(m.calls)].settled = "rejected"]

Resolved(m, ok, at) ==
    [m EXCEPT !.pc = at,
              !.calls[Len(m.calls)].settled = "resolved",
              !.calls[Len(m.calls)].ok = ok]

\* response.json() rejects (empty or malformed body).
JsonInvalid(m) == [m EXCEPT !.calls[Len(m.calls)].body = "invalid"]

\* response.json() resolves with d, from which the caller extracts v.
JsonParsed(m, d, v) ==
    [m EXCEPT !.data = d,
              !.calls[Len(m.calls)].body = "json",
              !.calls[Len(m.calls)].value = v]

FetchOutcomes == {"rejects", "ok", "notok"}

(***************************************************************************)
(* Response normalisation: the field chains of the three files.            *)
(***************************************************************************)
\* Mutant of NormalizeKastg: message is looked at before response.
NormalizeKastg_MessageFirst(d) == Or(Or(d.message, d.response), d.result)

\* index.js: data.response || data.message || data.result
NormalizeKastg(d) == Or(Or(d.response, d.message), d.result)

\* index.js: data.response || data.message
NormalizeDeepenglish(d) == Or(d.response, d.message)

\* index.js: data.candidates?.[0]?.content?.parts?.[0]?.text
NormalizeGemini(d) == d.text

\* index.js: data.url || data.image
NormalizeStableDiffusion(d) == Or(d.url, d.image)

\* part_000: data.response || data.answer || data.result || null
NormalizeGuru(d) == Or(Or(Or(d.response, d.answer), d.result), Null)

\* part_000: data.choices?.[0]?.message?.content || null
NormalizeFallback(d) == Or(d.content, Null)

\* part_000: data.data?.[0]?.url || null
NormalizeDalle(d) == Or(d.url, Null)

\* claude.js: data.choices?.[0]?.message?.content || "No response."
NormalizeCocos(d) == Or(d.content, Str(S_NoResponse))

(***************************************************************************)
(* src/api/index.js                                                         *)
(***************************************************************************)
\* Mutant of IndexCatch: no catch, the exception leaves the handler and no
\* response is written.
IndexCatch_Missing(m, msg) == [m EXCEPT !.pc = "done", !.escaped = TRUE]

\* catch (error) of the exported handler: 500 with the exception's message.
IndexCatch(m, msg) ==
    Send([m EXCEPT !.thrown = msg],
         Json(500, [error |-> "Internal server error", message |-> msg]))

\* handleChatRequest after the switch: if (response) 200, else throw and 500.
handleChatRequest_respond(m, response) ==
    IF Truthy(response)
    THEN Send(m, Json(200, [success |-> "true", model |-> m.loc.modelLower,
                            response |-> response]))
    ELSE Send(m, Json(500, [error |-> "Chat generation failed",
                            message |-> "All APIs failed",
                            model |-> m.loc.modelLower]))

\* Mutant of tryChatGPT_fallback: the second upstream is not tried.
tryChatGPT_fallback_GivesUp(m) == handleChatRequest_respond(m, Null)

\* tryChatGPT, second try block.  history.map(...) is evaluated before fetch
\* is called and throws, inside the try, when history is no array.
tryChatGPT_fallback(m) ==
    IF m.loc.history.t = "array"
    THEN Fetch(m, WORKING_APIS.chatgpt[2], "deepenglish_fetch")
    ELSE handleChatRequest_respond(m, Null)

\* tryChatGPT, first try block.  history.slice(-5) throws, inside the try,
\* when history has no slice method.
tryChatGPT(m) ==
    IF m.loc.history.t \in {"array", "string"}
    THEN Fetch(m, WORKING_APIS.chatgpt[1], "kastg_fetch")
    ELSE tryChatGPT_fallback(m)

tryClaude(m) ==
    IF m.loc.history.t \in {"array", "string"}
    THEN Fetch(m, WORKING_APIS.claude[1], "claude_fetch")
    ELSE handleChatRequest_respond(m, Null)

tryPerplexity(m) == Fetch(m, WORKING_APIS.perplexity[1], "perplexity_fetch")

\* tryGemini up to its first await; envKey is process.env.GEMINI_API_KEY.
tryGemini(m, envKey) ==
    LET GEMINI_KEY == Or(envKey, Str(S_placeholder))
        m1 == [m EXCEPT !.loc.key = GEMINI_KEY]
    IN  IF ~Truthy(GEMINI_KEY) \/ GEMINI_KEY = Str(S_placeholder)
        THEN tryChatGPT(m1)
        ELSE Fetch(m1, WORKING_APIS.gemini[1], "gemini_fetch")

\* handleChatRequest up to its first await.  model.toLowerCase() is outside
\* the function's own try, so its TypeError reaches the exported handler.
handleChatRequest(m, envKey) ==
    IF m.loc.model.t # "string"
    THEN IndexCatch(m, "model.toLowerCase is not a function")
    ELSE LET modelLower == toLowerCase(m.loc.model)
             m1 == [m EXCEPT !.loc.modelLower = modelLower]
         IN  CASE modelLower \in {Str(S_chatgpt), Str(S_gpt), Str(S_gpt4)} ->
                    tryChatGPT(m1)
               [] modelLower = Str(S_claude) -> tryClaude(m1)
               [] modelLower \in {Str(S_perplexity), Str(S_search)} ->
                    tryPerplexity(m1)
               [] modelLower = Str(S_gemini) -> tryGemini(m1, envKey)
               [] OTHER -> tryChatGPT(m1)

\* Mutant of PollinationsUrl: the prompt is put in the URL as it is.
PollinationsUrl_Unencoded(prompt) ==
    <<"https://image.pollinations.ai/prompt/">> \o prompt
        \o <<"?", "width=1024", "&", "height=1024", "&", "nologo=true",
             "&", "enhance=true">>

\* `${WORKING_APIS.image[0]}${encodedPrompt}?width=1024&height=1024&nologo=true&enhance=true`
PollinationsUrl(prompt) ==
    <<"https://image.pollinations.ai/prompt/">> \o encodeURIComponent(prompt)
        \o <<"?", "width=1024", "&", "height=1024", "&", "nologo=true",
             "&", "enhance=true">>

\* handleImageGeneration up to its first await.  (directUrl repeats imageUrl
\* and the timestamps are left out of the envelopes.)
handleImageGeneration(m) ==
    IF ~Truthy(m.loc.prompt)
    THEN Send(m, Json(400, [error |-> "Prompt required for image generation"]))
    ELSE IF encodeURIComponent(m.loc.prompt.s) = URIError
    THEN Fetch([m EXCEPT !.loc.error = S_URIMalformed],
               WORKING_APIS.image[2], "sd_fetch")
    ELSE Send(m, Json(200, [success |-> "true", model |-> Str(<<"pollinations">>),
                            imageUrl |-> Str(PollinationsUrl(m.loc.prompt.s)),
                            prompt |-> m.loc.prompt]))

\* handleImageGeneration: the fallback failed; 500 with the first error.
handleImageGeneration_failed(m) ==
    Send(m, Json(500, [error |-> "Image generation failed",
                       message |-> m.loc.error]))

\* The exported handler of index.js up to its first await.
IndexExports(m, r, envKey) ==
    IF r.method = "OPTIONS" THEN Send(m, End(200))
    ELSE LET params == IF r.method = "GET" THEN r.query ELSE r.body
             m1 == [m EXCEPT !.loc.parsed = TRUE,
                             !.loc.prompt = params.prompt,
                             !.loc.model = Default(params.model, Str(S_chatgpt)),
                             !.loc.action = Default(params.action, Str(S_chat)),
                             !.loc.history = Default(params.history, Arr(<<>>))]
         IN  IF ~params.present
             THEN IndexCatch(m, "Cannot destructure property of undefined")
             ELSE IF ~Truthy(m1.loc.prompt) /\ m1.loc.action # Str(S_test)
             THEN Send(m1, Json(400, [error |-> "Missing prompt", usage |-> TRUE]))
             ELSE IF m1.loc.action = Str(S_test)
             THEN Send(m1, Json(200, [state |-> "online"]))
             ELSE IF m1.loc.action = Str(S_image)
             THEN handleImageGeneration(m1)
             ELSE handleChatRequest(m1, envKey)

(***************************************************************************)
(* src/unnamed/part_000                                                     *)
(***************************************************************************)
\* catch (error) of the exported handler.
Part000Catch(m, msg) ==
    Send([m EXCEPT !.thrown = msg],
         Json(500, [error |-> "Internal server error", message |-> msg]))

RECURSIVE handleChat_fallbacks(_)
\* handleChat: for (const fallbackUrl of FALLBACK.chat), from entry loc.idx on,
\* up to the next await; after the loop, throw and 500.  In callFallbackChat
\* the spread ...(history || []) throws, inside the try, when the value is
\* not iterable, and the function returns null without calling fetch.
handleChat_fallbacks(m) ==
    IF m.loc.idx > Len(FALLBACK.chat)
    THEN Send(m, Json(500, [error |-> "Chat generation failed",
                            message |-> "All APIs failed"]))
    ELSE IF Or(m.loc.history, Arr(<<>>)).t \in {"array", "string"}
    THEN Fetch(m, FALLBACK.chat[m.loc.idx], "fallback_fetch")
    ELSE handleChat_fallbacks([m EXCEPT !.loc.idx = @ + 1])

\* handleChat after callChatAPI returned response.
handleChat_primary(m, response) ==
    IF Truthy(response)
    THEN Send(m, Json(200, [success |-> "true", model |-> m.loc.modelLower,
                            response |-> response]))
    ELSE handleChat_fallbacks([m EXCEPT !.loc.idx = 1])

\* handleChat after callFallbackChat returned response.
handleChat_fallback(m, response) ==
    IF Truthy(response)
    THEN Send(m, Json(200, [success |-> "true", model |-> Str(S_fallback),
                            response |-> response]))
    ELSE handleChat_fallbacks([m EXCEPT !.loc.idx = @ + 1])

\* handleChat and callChatAPI up to the first await.
handleChat(m) ==
    IF m.loc.model.t # "string"
    THEN Part000Catch(m, "model.toLowerCase is not a function")
    ELSE LET selectedModel == toLowerCase(m.loc.model)
         IN  Fetch([m EXCEPT !.loc.modelLower = selectedModel],
                   APIS(selectedModel), "primary_fetch")

\* `https://image.pollinations.ai/prompt/${encodeURIComponent(prompt)}?width=1024&height=1024&nologo=true`
PollinationsUrl000(prompt) ==
    <<"https://image.pollinations.ai/prompt/">> \o encodeURIComponent(prompt)
        \o <<"?", "width=1024", "&", "height=1024", "&", "nologo=true">>

\* handleImageGen up to its first await.
handleImageGen(m) ==
    IF ~Truthy(m.loc.prompt)
    THEN Send(m, Json(400, [error |-> "Prompt required for image generation"]))
    ELSE IF encodeURIComponent(m.loc.prompt.s) = URIError
    THEN Fetch([m EXCEPT !.loc.error = S_URIMalformed],
               FALLBACK.image[1], "dalle_fetch")
    ELSE Send(m, Json(200, [success |-> "true",
                            model |-> Str(<<"pollinations-ai">>),
                            imageUrl |-> Str(PollinationsUrl000(m.loc.prompt.s)),
                            prompt |-> m.loc.prompt]))

\* handleImageGen: catch (fallbackError).
handleImageGen_failed(m, msg) ==
    Send(m, Json(500, [error |-> "Image generation failed", message |-> msg]))

\* The exported handler of part_000 up to its first await.
Part000Exports(m, r) ==
    IF r.method = "OPTIONS" THEN Send(m, End(200))
    ELSE LET params == IF r.method = "GET" THEN r.query ELSE r.body
             m1 == [m EXCEPT !.loc.parsed = TRUE,
                             !.loc.prompt = params.prompt,
                             !.loc.model = Default(params.model, Str(S_gpt4)),
                             !.loc.action = Default(params.action, Str(S_chat)),
                             !.loc.history = Default(params.history, Arr(<<>>))]
         IN  IF ~params.present
             THEN Part000Catch(m, "Cannot destructure property of undefined")
             ELSE IF ~Truthy(m1.loc.prompt) /\ m1.loc.action = Str(S_chat)
             THEN Send(m1, Json(400, [error |-> "Prompt required", usage |-> TRUE]))
             ELSE IF m1.loc.action = Str(S_image)
             THEN handleImageGen(m1)
             ELSE handleChat(m1)

(***************************************************************************)
(* src/api/claude.js                                                        *)
(***************************************************************************)
\* catch (err): 500 {success: false, error: err.message}
ClaudeCatch(m, msg) ==
    Send(m, Json(500, [success |-> "false", error |-> msg]))

\* handler up to its first await.
ClaudeExports(m, r) ==
    IF ~r.query.present
    THEN ClaudeCatch(m, "Cannot read properties of undefined")
    ELSE Fetch([m EXCEPT !.loc.parsed = TRUE,
                         !.loc.prompt = Or(r.query.prompt, Str(S_Hello))],
               COCOS, "cocos_fetch")

(***************************************************************************)
(* The state machine.                                                       *)
(***************************************************************************)
Init ==
    /\ served = 0
    /\ req = NoRequest
    /\ pc = "idle"
    /\ loc = NoLocals
    /\ data = NoData
    /\ calls = <<>>
    /\ sent = <<>>
    /\ thrown = ""
    /\ escaped = FALSE

\* The platform invokes the handler with a request.
Receive ==
    /\ pc = "idle"
    /\ served < MaxRequests
    /\ \E r \in Requests : req' = r
    /\ served' = served + 1
    /\ pc' = "entry"
    /\ loc' = NoLocals
    /\ data' = NoData
    /\ calls' = <<>>
    /\ sent' = <<>>
    /\ thrown' = ""
    /\ escaped' = FALSE

\* The handler's promise settles and the invocation ends; nothing of the
\* request is kept.
Return ==
    /\ pc = "done"
    /\ pc' = "idle"
    /\ req' = NoRequest
    /\ loc' = NoLocals
    /\ data' = NoData
    /\ calls' = <<>>
    /\ sent' = <<>>
    /\ thrown' = ""
    /\ escaped' = FALSE
    /\ UNCHANGED served

IndexHandler ==
    /\ pc = "entry"
    /\ req.endpoint = "index"
    /\ \E envKey \in EnvKeys : Become(IndexExports(Cur, req, envKey))

Part000Handler ==
    /\ pc = "entry"
    /\ req.endpoint = "part000"
    /\ Become(Part000Exports(Cur, req))

ClaudeHandler ==
    /\ pc = "entry"
    /\ req.endpoint = "claude"
    /\ Become(ClaudeExports(Cur, req))

\* tryChatGPT: await fetch(WORKING_APIS.chatgpt[0]) and await response.json()
Await_kastg ==
    \/ /\ pc = "kastg_fetch"
       /\ \E o \in FetchOutcomes :
            Become(CASE o = "rejects" -> tryChatGPT_fallback(Rejected(Cur))
                     [] o = "notok" -> tryChatGPT_fallback(Resolved(Cur, FALSE, pc))
                     [] o = "ok" -> Resolved(Cur, TRUE, "kastg_json"))
    \/ /\ pc = "kastg_json"
       /\ \/ Become(tryChatGPT_fallback(JsonInvalid(Cur)))
          \/ \E d \in Bodies("kastg_chatgpt") :
                Become(handleChatRequest_respond(
                           JsonParsed(Cur, d, NormalizeKastg(d)), NormalizeKastg(d)))

\* tryChatGPT: await fetch(WORKING_APIS.chatgpt[1]) and await response.json()
Await_deepenglish ==
    \/ /\ pc = "deepenglish_fetch"
       /\ \E o \in FetchOutcomes :
            Become(CASE o = "rejects" -> handleChatRequest_respond(Rejected(Cur), Null)
                     [] o = "notok" ->
                            handleChatRequest_respond(Resolved(Cur, FALSE, pc), Null)
                     [] o = "ok" -> Resolved(Cur, TRUE, "deepenglish_json"))
    \/ /\ pc = "deepenglish_json"
       /\ \/ Become(handleChatRequest_respond(JsonInvalid(Cur), Null))
          \/ \E d \in Bodies("deepenglish") :
                Become(handleChatRequest_respond(
                           JsonParsed(Cur, d, NormalizeDeepenglish(d)),
                           NormalizeDeepenglish(d)))

\* tryClaude
Await_claude ==
    \/ /\ pc = "claude_fetch"
       /\ \E o \in FetchOutcomes :
            Become(CASE o = "rejects" -> handleChatRequest_respond(Rejected(Cur), Null)
                     [] o = "notok" ->
                            handleChatRequest_respond(Resolved(Cur, FALSE, pc), Null)
                     [] o = "ok" -> Resolved(Cur, TRUE, "claude_json"))
    \/ /\ pc = "claude_json"
       /\ \/ Become(handleChatRequest_respond(JsonInvalid(Cur), Null))
          \/ \E d \in Bodies("kastg_claude") :
                Become(handleChatRequest_respond(
                           JsonParsed(Cur, d, NormalizeKastg(d)), NormalizeKastg(d)))

\* tryPerplexity
Await_perplexity ==
    \/ /\ pc = "perplexity_fetch"
       /\ \E o \in FetchOutcomes :
            Become(CASE o = "rejects" -> handleChatRequest_respond(Rejected(Cur), Null)
                     [] o = "notok" ->
                            handleChatRequest_respond(Resolved(Cur, FALSE, pc), Null)
                     [] o = "ok" -> Resolved(Cur, TRUE, "perplexity_json"))
    \/ /\ pc = "perplexity_json"
       /\ \/ Become(handleChatRequest_respond(JsonInvalid(Cur), Null))
          \/ \E d \in Bodies("kastg_perplexity") :
                Become(handleChatRequest_respond(
                           JsonParsed(Cur, d, NormalizeKastg(d)), NormalizeKastg(d)))

\* tryGemini with a key
Await_gemini ==
    \/ /\ pc = "gemini_fetch"
       /\ \E o \in FetchOutcomes :
            Become(CASE o = "rejects" -> tryChatGPT(Rejected(Cur))
                     [] o = "notok" -> tryChatGPT(Resolved(Cur, FALSE, pc))
                     [] o = "ok" -> Resolved(Cur, TRUE, "gemini_json"))
    \/ /\ pc = "gemini_json"
       /\ \/ Become(tryChatGPT(JsonInvalid(Cur)))
          \/ \E d \in Bodies("google_gemini") :
                Become(handleChatRequest_respond(
                           JsonParsed(Cur, d, NormalizeGemini(d)), NormalizeGemini(d)))

\* handleImageGeneration: the fallback in catch (error)
Await_stablediffusion ==
    \/ /\ pc = "sd_fetch"
       /\ \E o \in FetchOutcomes :
            Become(CASE o = "rejects" -> handleImageGeneration_failed(Rejected(Cur))
                     [] o = "notok" ->
                            handleImageGeneration_failed(Resolved(Cur, FALSE, pc))
                     [] o = "ok" -> Resolved(Cur, TRUE, "sd_json"))
    \/ /\ pc = "sd_json"
       /\ \/ Become(handleImageGeneration_failed(JsonInvalid(Cur)))
          \/ \E d \in Bodies("kastg_sd") :
                Become(Send(JsonParsed(Cur, d, NormalizeStableDiffusion(d)),
                            Json(200, [success |-> "true",
                                       model |-> Str(<<"stable-diffusion">>),
                                       imageUrl |-> NormalizeStableDiffusion(d),
                                       prompt |-> loc.prompt])))

\* callChatAPI
Await_primary ==
    \/ /\ pc = "primary_fetch"
       /\ \E o \in FetchOutcomes :
            Become(CASE o = "rejects" -> handleChat_primary(Rejected(Cur), Null)
                     [] o = "notok" -> handleChat_primary(Resolved(Cur, FALSE, pc), Null)
                     [] o = "ok" -> Resolved(Cur, TRUE, "primary_json"))
    \/ /\ pc = "primary_json"
       /\ \/ Become(handleChat_primary(JsonInvalid(Cur), Null))
          \/ \E d \in Bodies(calls[Len(calls)].target) :
                Become(handleChat_primary(
                           JsonParsed(Cur, d, NormalizeGuru(d)), NormalizeGuru(d)))

\* callFallbackChat
Await_fallback ==
    \/ /\ pc = "fallback_fetch"
       /\ \E o \in FetchOutcomes :
            Become(CASE o = "rejects" -> handleChat_fallback(Rejected(Cur), Null)
                     [] o = "notok" -> handleChat_fallback(Resolved(Cur, FALSE, pc), Null)
                     [] o = "ok" -> Resolved(Cur, TRUE, "fallback_json"))
    \/ /\ pc = "fallback_json"
       /\ \/ Become(handleChat_fallback(JsonInvalid(Cur), Null))
          \/ \E d \in Bodies(calls[Len(calls)].target) :
                Become(handleChat_fallback(
                           JsonParsed(Cur, d, NormalizeFallback(d)),
                           NormalizeFallback(d)))

\* handleImageGen: the fallback in catch (error); response.ok is not looked at
Await_dalle ==
    \/ /\ pc = "dalle_fetch"
       /\ \E o \in FetchOutcomes :
            Become(CASE o = "rejects" -> handleImageGen_failed(Rejected(Cur), "fetch failed")
                     [] o = "notok" -> Resolved(Cur, FALSE, "dalle_json")
                     [] o = "ok" -> Resolved(Cur, TRUE, "dalle_json"))
    \/ /\ pc = "dalle_json"
       /\ \/ Become(handleImageGen_failed(JsonInvalid(Cur), "invalid json response body"))
          \/ \E d \in Bodies("freeaiapi_image") :
                Become(Send(JsonParsed(Cur, d, NormalizeDalle(d)),
                            Json(200, [success |-> "true",
                                       model |-> Str(<<"dalle-free">>),
                                       imageUrl |-> NormalizeDalle(d),
                                       prompt |-> loc.prompt])))

\* claude.js handler; response.ok is not looked at
Await_cocos ==
    \/ /\ pc = "cocos_fetch"
       /\ \E o \in FetchOutcomes :
            Become(CASE o = "rejects" -> ClaudeCatch(Rejected(Cur), "fetch failed")
                     [] o = "notok" -> Resolved(Cur, FALSE, "cocos_json")
                     [] o = "ok" -> Resolved(Cur, TRUE, "cocos_json"))
    \/ /\ pc = "cocos_json"
       /\ \/ Become(ClaudeCatch(JsonInvalid(Cur), "invalid json response body"))
          \/ \E d \in Bodies("cocos") :
                Become(Send(JsonParsed(Cur, d, d.content),
                            Json(200, [success |-> "true",
                                       model |-> Str(<<"claude-3.5-sonnet">>),
                                       response |-> NormalizeCocos(d)])))

\* The steps the handler and the upstreams take once a request is in.
HandlerStep ==
    \/ IndexHandler
    \/ Part000Handler
    \/ ClaudeHandler
    \/ Await_kastg
    \/ Await_deepenglish
    \/ Await_claude
    \/ Await_perplexity
    \/ Await_gemini
    \/ Await_stablediffusion
    \/ Await_primary
    \/ Await_fallback
    \/ Await_dalle
    \/ Await_cocos
    \/ Return

Next == Receive \/ HandlerStep

Spec == Init /\ [][Next]_vars

\* Every pending fetch and body read settles, and the event loop runs the
\* continuation.
FairSpec == Spec /\ WF_vars(HandlerStep)

(***************************************************************************)
(* Vocabulary of the properties.                                            *)
(***************************************************************************)
\* The handler has run its first step for the request in hand.
Entered == pc \notin {"idle", "entry"}

Router == req.endpoint \in {"index", "part000"}

\* A chat request as the data model has it: a prompt, action chat (given or
\* by default), a string model (given or by default) and an array history.
WellFormedChat ==
    /\ Router
    /\ Entered
    /\ loc.parsed
    /\ Truthy(loc.prompt)
    /\ loc.action = Str(S_chat)
    /\ loc.model.t = "string"
    /\ loc.history.t = "array"

KeyUsable(k) == Truthy(k) /\ k # Str(S_placeholder)

\* The candidate upstreams of the request in hand, in registry order.
Chain ==
    IF req.endpoint = "index"
    THEN CASE loc.modelLower = Str(S_claude) -> WORKING_APIS.claude
           [] loc.modelLower \in {Str(S_perplexity), Str(S_search)} ->
                WORKING_APIS.perplexity
           [] loc.modelLower = Str(S_gemini) ->
                IF KeyUsable(loc.key)
                THEN WORKING_APIS.gemini \o WORKING_APIS.chatgpt
                ELSE WORKING_APIS.chatgpt
           [] OTHER -> WORKING_APIS.chatgpt
    ELSE <<APIS(loc.modelLower)>> \o FALLBACK.chat

\* How a logged call ended.
InFlight(e) ==
    \/ e.settled = "pending"
    \/ e.settled = "resolved" /\ e.ok /\ e.body = "unread"

\* network error, non-2xx status, or a body that is not JSON
HardFailed(e) ==
    \/ e.settled = "rejected"
    \/ e.settled = "resolved" /\ ~e.ok
    \/ e.settled = "resolved" /\ e.ok /\ e.body = "invalid"

\* 2xx and JSON, but no usable value in the expected fields
Unusable(e) ==
    e.settled = "resolved" /\ e.ok /\ e.body = "json" /\ ~Truthy(e.value)

\* 2xx, JSON and a usable value
Valid(e) ==
    e.settled = "resolved" /\ e.ok /\ e.body = "json" /\ Truthy(e.value)

Targets == [i \in 1..Len(calls) |-> calls[i].target]

Contains(s, sub) ==
    \E i \in 0..(Len(s) - Len(sub)) : SubSeq(s, i + 1, i + Len(sub)) = sub

(***************************************************************************)
(* C1  Short-circuit fallback.  In a chat request, as long as the          *)
(* candidates called so far failed by network error, non-2xx status or a   *)
(* body that is not JSON, the calls follow the chain in registry order and *)
(* the next candidate is called; when candidate M+1 returns a valid        *)
(* payload the handler answers 200 with the value normalised from it, and  *)
(* no candidate after it is called.                                        *)
(***************************************************************************)
C1_ShortCircuit ==
    WellFormedChat =>
        /\ Len(calls) >= 1
        /\ \A k \in 1..Len(calls) :
              (\A i \in 1..(k - 1) : HardFailed(calls[i])) =>
                  /\ k <= Len(Chain)
                  /\ calls[k].target = Chain[k]
                  /\ (HardFailed(calls[k]) /\ k < Len(Chain)) => Len(calls) > k
                  /\ Valid(calls[k]) =>
                        /\ Len(calls) = k
                        /\ pc = "done"
                        /\ Len(sent) = 1
                        /\ sent[1].status = 200
                        /\ sent[1].success = "true"
                        /\ sent[1].response = calls[k].value

\* Two candidates failed in different ways, the third answered.
C1_Witness ==
    /\ WellFormedChat
    /\ pc = "done"
    /\ Len(calls) = 3
    /\ calls[1].settled = "rejected"
    /\ calls[2].settled = "resolved" /\ ~calls[2].ok
    /\ Valid(calls[3])
    /\ sent[1].status = 200

(***************************************************************************)
(* C2  Exhaustion.  No call starts before the previous one has finished;   *)
(* and when a chat request ends with no candidate having returned a valid  *)
(* payload, the answer is 500 'Chat generation failed' and the calls made  *)
(* are exactly the chain, each candidate once, in registry order.          *)
(***************************************************************************)
C2_Exhaustion ==
    WellFormedChat =>
        /\ \A i \in 1..(Len(calls) - 1) : ~InFlight(calls[i])
        /\ (pc = "done" /\ \A i \in 1..Len(calls) : ~Valid(calls[i])) =>
              /\ Len(sent) = 1
              /\ sent[1].status = 500
              /\ sent[1].error = "Chat generation failed"
              /\ Targets = Chain

(***************************************************************************)
(* C3  Failure classification.  For every candidate of a chat request that *)
(* is not the last of its chain, each of: network error, non-2xx status,   *)
(* JSON parse failure, 2xx JSON with none of the expected fields usable,   *)
(* makes the handler call the next candidate of the chain.                 *)
(***************************************************************************)
C3_FailureClassification ==
    WellFormedChat =>
        \A k \in 1..Len(calls) :
            (k < Len(Chain) /\ (HardFailed(calls[k]) \/ Unusable(calls[k]))) =>
                /\ Len(calls) > k
                /\ calls[k + 1].target = Chain[k + 1]

(***************************************************************************)
(* C4  For every request with action "test" that the router parsed (any    *)
(* method but OPTIONS, any prompt, any model) no upstream is called and    *)
(* the answer is 200 with the static status payload.                       *)
(***************************************************************************)
C4_TestAction ==
    (Router /\ Entered /\ loc.parsed /\ loc.action = Str(S_test)) =>
        /\ calls = <<>>
        /\ sent = <<Json(200, [state |-> "online"])>>

(***************************************************************************)
(* C5  For every parsed request whose prompt is absent or empty and whose  *)
(* action is not "test", the answer is 400 with a usage hint and no        *)
(* upstream is called.                                                      *)
(***************************************************************************)
C5_MissingPrompt ==
    (Router /\ Entered /\ loc.parsed /\ ~Truthy(loc.prompt)
        /\ loc.action # Str(S_test)) =>
        /\ calls = <<>>
        /\ Len(sent) = 1
        /\ sent[1].status = 400
        /\ sent[1].usage

(***************************************************************************)
(* C6  Response normalisation of the generic chat upstreams.               *)
(***************************************************************************)
GenericChat ==
    {"kastg_chatgpt", "kastg_claude", "kastg_perplexity", "deepenglish",
     "guru_gpt4", "guru_claude", "guru_gemini", "guru_llama"}

\* The order in which the caller of each upstream looks at the fields.
FieldOrder(target) ==
    CASE target \in {"kastg_chatgpt", "kastg_claude", "kastg_perplexity"} ->
            <<"response", "message", "result">>
      [] target = "deepenglish" -> <<"response", "message">>
      [] OTHER -> <<"response", "answer", "result">>

RECURSIVE FirstPresent(_, _)
\* The first value of d, in the order given, that is neither null nor
\* undefined; null when there is none.
FirstPresent(order, d) ==
    IF order = <<>> THEN Null
    ELSE IF d[Head(order)] \notin {Null, Undef} THEN d[Head(order)]
    ELSE FirstPresent(Tail(order), d)

JustNormalised ==
    /\ data # NoData
    /\ calls # <<>>
    /\ calls[Len(calls)].target \in GenericChat

\* C6 as claimed: the value extracted is the first non-null, non-undefined
\* field in the order, whatever it is, and null (or undefined, which a
\* JavaScript caller cannot tell from it with `if`) when none is present.
C6_FirstPresent ==
    JustNormalised =>
        LET expected == FirstPresent(FieldOrder(calls[Len(calls)].target), data)
        IN  IF expected = Null
            THEN calls[Len(calls)].value \in {Null, Undef}
            ELSE calls[Len(calls)].value = expected

\* C6 as amended: the value extracted is the first truthy field in the
\* order; when no field is truthy it is a falsy value: null in part_000,
\* the value of the last field looked at in index.js.
C6_FirstTruthy ==
    JustNormalised =>
        LET e == calls[Len(calls)]
            order == FieldOrder(e.target)
            truthy == {i \in 1..Len(order) : Truthy(data[order[i]])}
        IN  IF truthy # {}
            THEN \E i \in truthy :
                    /\ \A j \in truthy : i <= j
                    /\ e.value = data[order[i]]
            ELSE /\ ~Truthy(e.value)
                 /\ e.value = IF req.endpoint = "part000" THEN Null
                              ELSE data[order[Len(order)]]

\* response is an empty string and message a text: the text is extracted.
C6_Witness ==
    /\ JustNormalised
    /\ calls[Len(calls)].target = "kastg_chatgpt"
    /\ data.response = Str(<<>>)
    /\ data.message = TextA
    /\ data.result = TextB
    /\ calls[Len(calls)].value = TextA

(***************************************************************************)
(* C7  Gemini strategy of index.js.  With model "gemini" and no usable     *)
(* key the gemini upstream is never called and the ChatGPT chain is run;   *)
(* with a key, when the gemini upstream fails (in any of the four ways)    *)
(* the ChatGPT chain is run after it.                                       *)
(***************************************************************************)
C7_GeminiStrategy ==
    (WellFormedChat /\ req.endpoint = "index" /\ loc.modelLower = Str(S_gemini)) =>
        /\ Len(calls) >= 1
        /\ ~KeyUsable(loc.key) =>
              /\ \A i \in 1..Len(calls) : calls[i].target # WORKING_APIS.gemini[1]
              /\ calls[1].target = WORKING_APIS.chatgpt[1]
        /\ KeyUsable(loc.key) =>
              /\ calls[1].target = WORKING_APIS.gemini[1]
              /\ (HardFailed(calls[1]) \/ Unusable(calls[1])) =>
                    /\ Len(calls) >= 2
                    /\ calls[2].target = WORKING_APIS.chatgpt[1]

(***************************************************************************)
(* C8  Image action.  For every request with action "image" and a          *)
(* non-empty prompt: when the URL can be built, the answer is 200 with     *)
(* success and an imageUrl that contains the percent-encoded prompt (no    *)
(* raw space) and width=1024, height=1024, and no upstream is called; the  *)
(* fallback image upstream is called, once, only when building the URL     *)
(* raised an error.                                                         *)
(***************************************************************************)
ImageRequest ==
    /\ Router
    /\ Entered
    /\ loc.parsed
    /\ loc.action = Str(S_image)
    /\ Truthy(loc.prompt)

\* C8: an image request whose URL can be built is answered 200 with that URL
\* and no upstream call; an upstream call implies that building it raised.
C8_ImagePrimaryPath ==
    ImageRequest =>
        LET enc == encodeURIComponent(loc.prompt.s)
        IN  /\ enc # URIError =>
                  /\ pc = "done"
                  /\ calls = <<>>
                  /\ Len(sent) = 1
                  /\ sent[1].status = 200
                  /\ sent[1].success = "true"
                  /\ Contains(sent[1].imageUrl.s, enc)
                  /\ ~Contains(sent[1].imageUrl.s, <<" ">>)
                  /\ Contains(sent[1].imageUrl.s, <<"width=1024", "&", "height=1024">>)
            /\ calls # <<>> =>
                  /\ enc = URIError
                  /\ Len(calls) = 1
                  /\ calls[1].target \in {WORKING_APIS.image[2], FALLBACK.image[1]}

\* The prompt "a f" was answered with a URL that holds a%20f.
C8_Witness ==
    /\ ImageRequest
    /\ pc = "done"
    /\ loc.prompt = Str(<<"a", " ", "f">>)
    /\ calls = <<>>
    /\ sent[1].status = 200
    /\ Contains(sent[1].imageUrl.s, <<"a", "%", "2", "0", "f">>)

(***************************************************************************)
(* C9  Success implies a usable upstream answer.  In every chat endpoint   *)
(* a 200 response with success:true and a response field is sent only if   *)
(* some upstream call of the request returned 2xx and a JSON body with a   *)
(* usable expected field, and the response field is the value extracted    *)
(* from that call.                                                          *)
(***************************************************************************)
ChatSuccess(r) ==
    r.status = 200 /\ r.success = "true" /\ r.prompt = Undef

\* C9: every chat success envelope carries the value of a valid upstream call.
C9_SuccessImpliesUsable ==
    \A n \in 1..Len(sent) :
        ChatSuccess(sent[n]) =>
            \E k \in 1..Len(calls) :
                Valid(calls[k]) /\ sent[n].response = calls[k].value

(***************************************************************************)
(* C10  Exactly one response per request.  At no time are two responses    *)
(* written or does an exception leave the handler; every status is 200,    *)
(* 400 or 500; a request that has returned has exactly one response; an    *)
(* exception caught while routing gives 500 with that exception's message; *)
(* and, upstream calls settling, every request received is answered.       *)
(***************************************************************************)
OneResponse ==
    /\ Len(sent) <= 1
    /\ ~escaped
    /\ \A n \in 1..Len(sent) : sent[n].status \in {200, 400, 500}
    /\ pc = "done" <=> Len(sent) = 1
    /\ thrown # "" =>
          sent = <<Json(500, [error |-> "Internal server error",
                              message |-> thrown])>>

\* C10: never two responses nor an escaped exception, and every request
\* received is eventually answered with exactly one response.
C10_ExactlyOneResponse ==
    /\ []OneResponse
    /\ (pc = "entry") ~> (pc = "done" /\ Len(sent) = 1)

\* A POST whose model is a number: toLowerCase threw and 500 was sent.
C10_Witness ==
    /\ pc = "done"
    /\ loc.parsed
    /\ loc.model.t = "number"
    /\ thrown = "model.toLowerCase is not a function"
    /\ Len(sent) = 1
    /\ sent[1].status = 500
====
